---- MODULE Spec2Model ----
(***************************************************************************)
(* MQTT session manager of src/main/mqtt_app.c (the JSON-envelope variant; *)
(* src/unnamed/part_000 is the raw-string variant of the same state        *)
(* machine).  The file-scope statics are the variables, every public       *)
(* function, transport event and timer callback is one action.  The        *)
(* esp-mqtt client, esp_timer and cJSON are collaborators: their calls are *)
(* recorded in `calls`, their results are inputs of the actions.           *)
(***************************************************************************)
EXTENDS Integers, Sequences, FiniteSets, TLC

VARIABLES
    client,            \* static esp_mqtt_client_handle_t client
    reconnect_timer,   \* static esp_timer_handle_t reconnect_timer
    mqtt_retry_count,  \* static int mqtt_retry_count
    mqtt_connected,    \* static bool mqtt_connected
    device_ip,         \* static char device_ip[16]
    last_update_time,  \* static uint32_t last_update_time (publish_json_status)
    timer_active,      \* esp_timer: the one-shot timer is armed
    timer_us,          \* esp_timer: the timeout it was armed with, microseconds (a uint32_t word)
    link,              \* esp-mqtt: "none" (no client running), "started", "connected"
    uptime,            \* esp_timer_get_time() / 1000000
    live,              \* objects allocated and not released: clients and timers, and
                       \* the JSON objects and buffers the last operation left behind
    consec_disconnected, \* disconnected events since the last connected event, start() or stop()
    calls,             \* collaborator calls issued by the last action, in order
    last,              \* the last operation: name, arguments, result
    pre,               \* the state the last operation started from
    prev_status,       \* uptime second of the last status envelope handed to the
                       \* transport, -1 before the first one
    race               \* mqtt_app_stop() and the timer callback taken statement by
                       \* statement: where each thread stands, the handle the callback
                       \* read, and what its esp_mqtt_client_start was called on

vars == <<client, reconnect_timer, mqtt_retry_count, mqtt_connected, device_ip,
          last_update_time, timer_active, timer_us, link, uptime, live,
          consec_disconnected, calls, last, pre, prev_status, race>>

----------------------------------------------------------------------------
\* Program constants.

MQTT_RECONNECT_TIMEOUT_MS == 5000
MQTT_MAX_RETRY_COUNT == 5
BACKOFF_CAP_MS == 300000

MQTT_TOPIC_DEVICE_COMMANDS == <<"/","d","e","v","i","c","e","/","c","o","m","m","a","n","d","s">>
MQTT_TOPIC_DEVICE_STATUS == <<"/","d","e","v","i","c","e","/","s","t","a","t","u","s">>
MQTT_TOPIC_DEVICE_TELEMETRY == <<"/","d","e","v","i","c","e","/","t","e","l","e","m","e","t","r","y">>
MQTT_TOPIC_DEVICE_RESPONSE == <<"/","d","e","v","i","c","e","/","r","e","s","p","o","n","s","e">>

NULL == "NULL"
CLIENT == "mqtt_client"
TIMER == "mqtt_reconnect"

\* Bounds of the model.
\* seconds of uptime the clock runs through
MaxUptime == 2

----------------------------------------------------------------------------
\* Inputs of the operations.

\* message ids a transport call can return: -2 outbox full, -1 failure,
\* 0 (QoS 0 publish), positive otherwise
MsgIds == {-2, -1, 0, 1}
ApiTopics == {MQTT_TOPIC_DEVICE_TELEMETRY, <<"/","x">>}
ApiData == {"", "hello"}
QosLevels == {0, 1}
StatusStrings == {"online", "offline", "busy"}
Ips == {"10.0.0.2"}
\* how a JSON publish goes: <<alloc, msg_id>>, where alloc names the
\* allocation that fails (the envelope root, the string of cJSON_Print, or
\* the caller's response object) and msg_id is the transport's result
JsonOutcomes == {<<"none", -1>>, <<"none", 0>>, <<"none", 1>>,
                 <<"root", -1>>, <<"print", -1>>}
ResponseOutcomes == JsonOutcomes \cup {<<"response", -1>>}
\* the step of mqtt_app_start() that fails
StartFailures == {"none", "client_id", "init", "timer", "register", "connect"}
\* topics of inbound data events
OtherTopics == {MQTT_TOPIC_DEVICE_COMMANDS \o <<"/","x">>, MQTT_TOPIC_DEVICE_STATUS}
\* inbound payloads, as cJSON_Parse and cJSON_GetObjectItem see them
Msg(json, type, payload) == [json |-> json, type |-> type, payload |-> payload]
PingMsg == Msg(TRUE, "ping", "<absent>")
CmdMsg(cmd) == Msg(TRUE, "command", cmd)
CmdStrings == {"led_a", "led_b", "led_c", "reboot", "LED_A"}
\* messages that reach a publish
AnsweredMessages == {PingMsg, Msg(TRUE, "ping", "led_a")} \cup {CmdMsg(c) : c \in CmdStrings}
\* messages that are dropped
DroppedMessages == {Msg(FALSE, "<absent>", "<absent>"),
                    Msg(TRUE, "<absent>", "led_a"), Msg(TRUE, "<number>", "led_a"),
                    Msg(TRUE, "status", "led_a"), CmdMsg("<absent>"),
                    CmdMsg("<nocmd>"), CmdMsg("<cmd:number>")}
\* a topic one character shorter than the commands topic: /device/command
ShortTopic == SubSeq(MQTT_TOPIC_DEVICE_COMMANDS, 1, Len(MQTT_TOPIC_DEVICE_COMMANDS) - 1)
\* event->topic points into the receive buffer and is not NUL-terminated:
\* what follows its topic_len characters there (the packet id, the payload)
\* is whatever the packet holds
BytesAfterTopic == {<<"s">>, <<"{">>}
\* data events: <<topic, msg, copy_ok, outcome, after>>; the outcome of the
\* publish varies where a publish can follow, the bytes after the topic
\* where the comparison reads them
DataInputs ==
    ({MQTT_TOPIC_DEVICE_COMMANDS} \X AnsweredMessages \X {TRUE} \X ResponseOutcomes \X {<<>>})
    \cup ({MQTT_TOPIC_DEVICE_COMMANDS} \X DroppedMessages \X {TRUE} \X {<<"none", 1>>} \X {<<>>})
    \cup (OtherTopics \X {PingMsg, CmdMsg("led_a")} \X {TRUE} \X {<<"none", 1>>} \X {<<>>})
    \cup ({MQTT_TOPIC_DEVICE_COMMANDS} \X {PingMsg} \X {FALSE} \X {<<"none", 1>>} \X {<<>>})
    \cup ({ShortTopic} \X {PingMsg} \X {TRUE} \X {<<"none", 1>>} \X BytesAfterTopic)
\* events the handler only logs
LogOnlyEvents == {"MQTT_EVENT_BEFORE_CONNECT", "MQTT_EVENT_SUBSCRIBED",
                  "MQTT_EVENT_UNSUBSCRIBED", "MQTT_EVENT_PUBLISHED",
                  "MQTT_EVENT_ERROR", "MQTT_EVENT_DELETED"}

----------------------------------------------------------------------------
\* The state as one record, so that a function of the program is an operator
\* from state to state.

Cur == [client |-> client, reconnect_timer |-> reconnect_timer,
        mqtt_retry_count |-> mqtt_retry_count, mqtt_connected |-> mqtt_connected,
        device_ip |-> device_ip, last_update_time |-> last_update_time,
        timer_active |-> timer_active, timer_us |-> timer_us, link |-> link,
        uptime |-> uptime, live |-> [live EXCEPT !.json = 0, !.buf = 0],
        consec_disconnected |-> consec_disconnected,
        prev_status |-> prev_status,
        calls |-> <<>>]

R(s, ret) == [s |-> s, ret |-> ret]

Call(fn, args, ret) == [fn |-> fn, args |-> args, ret |-> ret]

Emit(s, fn, args, ret) == [s EXCEPT !.calls = Append(@, Call(fn, args, ret))]

Alloc(s, kind) == [s EXCEPT !.live[kind] = @ + 1]

Free(s, kind) == [s EXCEPT !.live[kind] = @ - 1]

U8(x) == x % 256

\* A uint32_t is a pair <<high, low>> of 16-bit halves, so that arithmetic
\* modulo 2^32 is computed on numbers below 2^31.
Half == 65536

\* the uint32_t of an integer 0 <= n < 2^31
Word(n) == <<n \div Half, n % Half>>

\* w * k modulo 2^32, for 0 <= k < 2^15
MulU32(w, k) ==
    LET lo == w[2] * k
        hi == w[1] * k + (lo \div Half)
    IN  <<hi % Half, lo % Half>>

\* the uint32_t w fits a 32-bit signed int
FitsInt(w) == w[1] < 32768

\* the integer value of a uint32_t that fits
IntOf(w) == w[1] * Half + w[2]

\* w > n as unsigned, for 0 <= n < 2^31
GtU32(w, n) == ~FitsInt(w) \/ IntOf(w) > n

----------------------------------------------------------------------------
\* Retry policy.

\* 1 << n, as a 32-bit word
RECURSIVE Shl(_)
Shl(n) == IF n = 0 THEN Word(1) ELSE MulU32(Shl(n - 1), 2)

\* MQTT_RECONNECT_TIMEOUT_MS * (1 << retry_count), as a 32-bit word
BackoffProduct(retry_count) == MulU32(Shl(U8(retry_count)), MQTT_RECONNECT_TIMEOUT_MS)

\* a backoff that grows linearly instead of doubling
exponential_backoff_Linear(retry_count) ==
    LET delay == MulU32(Word(U8(retry_count) + 1), MQTT_RECONNECT_TIMEOUT_MS)
    IN  IF GtU32(delay, BACKOFF_CAP_MS) THEN BACKOFF_CAP_MS ELSE IntOf(delay)

\* static uint32_t exponential_backoff(uint8_t retry_count); the result is at
\* most the cap, so it is an integer
exponential_backoff(retry_count) ==
    LET delay == BackoffProduct(retry_count)
    IN  IF GtU32(delay, BACKOFF_CAP_MS) THEN BACKOFF_CAP_MS ELSE IntOf(delay)

\* a conversion that takes the delay for seconds: delay * 1000000
TimeoutUs_Seconds(delay) == MulU32(MulU32(Word(delay), 1000), 1000)

\* the argument `delay * 1000` of esp_timer_start_once: uint32_t arithmetic
TimeoutUs(delay) == MulU32(Word(delay), 1000)

----------------------------------------------------------------------------
\* Collaborators: esp_timer.

\* esp_timer_start_once(timer, timeout_us): refuses a NULL handle and a timer
\* that is already armed, arms it otherwise
esp_timer_start_once(s, timer, timeout_us) ==
    IF timer = NULL
    THEN Emit(s, "esp_timer_start_once", <<timer, timeout_us>>, "ESP_ERR_INVALID_ARG")
    ELSE IF s.timer_active
    THEN Emit(s, "esp_timer_start_once", <<timer, timeout_us>>, "ESP_ERR_INVALID_STATE")
    ELSE Emit([s EXCEPT !.timer_active = TRUE, !.timer_us = timeout_us],
              "esp_timer_start_once", <<timer, timeout_us>>, "ESP_OK")

\* if (esp_timer_is_active(t)) esp_timer_stop(t); is left out: the timer is
\* deleted while it may still be armed, which esp_timer_delete refuses
TimerStopAndDelete_NoStop(s) ==
    IF s.timer_active
    THEN Emit(s, "esp_timer_delete", <<s.reconnect_timer>>, "ESP_ERR_INVALID_STATE")
    ELSE Free(Emit(s, "esp_timer_delete", <<s.reconnect_timer>>, "ESP_OK"), "timer")

\* if (esp_timer_is_active(t)) esp_timer_stop(t); esp_timer_delete(t);
TimerStopAndDelete(s) ==
    LET s1 == Emit(s, "esp_timer_is_active", <<s.reconnect_timer>>, s.timer_active)
        s2 == IF s.timer_active
              THEN Emit([s1 EXCEPT !.timer_active = FALSE],
                        "esp_timer_stop", <<s.reconnect_timer>>, "ESP_OK")
              ELSE s1
    IN  Free(Emit(s2, "esp_timer_delete", <<s.reconnect_timer>>, "ESP_OK"), "timer")

\* esp_timer_delete(reconnect_timer) on the failure paths of mqtt_app_start
TimerDelete(s) ==
    Free(Emit([s EXCEPT !.timer_active = FALSE],
              "esp_timer_delete", <<s.reconnect_timer>>, "ESP_OK"), "timer")

----------------------------------------------------------------------------
\* Collaborators: esp-mqtt client.  A call on a NULL handle is refused with -1.

MsgIdOf(s, msg_id) == IF s.client = NULL THEN -1 ELSE msg_id

esp_mqtt_client_publish(s, topic, data, len, qos, retain, msg_id) ==
    Emit(s, "esp_mqtt_client_publish", <<s.client, topic, data, len, qos, retain>>,
         MsgIdOf(s, msg_id))

esp_mqtt_client_subscribe(s, topic, qos, msg_id) ==
    Emit(s, "esp_mqtt_client_subscribe", <<s.client, topic, qos>>, MsgIdOf(s, msg_id))

esp_mqtt_client_unsubscribe(s, topic, msg_id) ==
    Emit(s, "esp_mqtt_client_unsubscribe", <<s.client, topic>>, MsgIdOf(s, msg_id))

\* the result of the last call recorded in s
LastRet(s) == s.calls[Len(s.calls)].ret

----------------------------------------------------------------------------
\* JSON envelopes.  A cJSON pointer is a record; NullJson is the NULL pointer.

NullJson == [null |-> TRUE]

\* static esp_err_t publish_json_status(const char* status)
publish_json_status(s, status, alloc, msg_id) ==
    IF ~s.mqtt_connected /\ status # "offline" THEN R(s, "ESP_FAIL")
    ELSE IF alloc = "root" THEN R(s, "ESP_FAIL")
    ELSE
      \* the clock never runs backwards, so the uint32_t difference does not wrap
      LET current_time == s.uptime
          time_since_last == IF s.last_update_time > 0
                             THEN current_time - s.last_update_time ELSE 0
          root == [null |-> FALSE, type |-> "status", status |-> status,
                   ip |-> s.device_ip, uptime |-> s.uptime, active_led |-> 0,
                   time_since_last_update |-> time_since_last]
          s1 == [Alloc(s, "json") EXCEPT !.last_update_time = current_time]
      IN  IF alloc = "print" THEN R(Free(s1, "json"), "ESP_FAIL")
          ELSE LET s2 == esp_mqtt_client_publish(s1, MQTT_TOPIC_DEVICE_STATUS,
                                                 root, 0, 1, TRUE, msg_id)
               IN  R(Free(s2, "json"),
                     IF LastRet(s2) > 0 THEN "ESP_OK" ELSE "ESP_FAIL")

\* static esp_err_t publish_json_message(topic, type, cJSON *payload)
publish_json_message(s, topic, type, payload, alloc, msg_id) ==
    IF ~s.mqtt_connected \/ payload.null THEN R(s, "ESP_FAIL")
    ELSE IF alloc = "root" THEN R(s, "ESP_FAIL")
    ELSE
      \* cJSON_AddItemToObject: cJSON_Delete(root) releases the payload too
      LET root == [null |-> FALSE, type |-> type, payload |-> payload]
          s1 == Alloc(s, "json")
      IN  IF alloc = "print" THEN R(Free(Free(s1, "json"), "json"), "ESP_FAIL")
          ELSE LET s2 == esp_mqtt_client_publish(s1, topic, root, 0, 1, FALSE, msg_id)
               IN  R(Free(Free(s2, "json"), "json"),
                     IF LastRet(s2) > 0 THEN "ESP_OK" ELSE "ESP_FAIL")

\* cJSON_CreateObject() for a response; NULL when the allocation fails
CreateResponse(s, alloc, obj) ==
    IF alloc = "response" THEN R(s, NullJson) ELSE R(Alloc(s, "json"), obj)

\* a strcmp chain that maps led_b and led_c to each other's code
LedCommand_Swapped(s, cmd) ==
    IF cmd = "led_a" THEN Emit(s, "process_led_command", <<"A">>, "void")
    ELSE IF cmd = "led_b" THEN Emit(s, "process_led_command", <<"C">>, "void")
    ELSE IF cmd = "led_c" THEN Emit(s, "process_led_command", <<"B">>, "void")
    ELSE s

\* a strcmp chain that ends in an else: any other command is taken for led_a
LedCommand_ElseA(s, cmd) ==
    IF cmd = "led_b" THEN Emit(s, "process_led_command", <<"B">>, "void")
    ELSE IF cmd = "led_c" THEN Emit(s, "process_led_command", <<"C">>, "void")
    ELSE Emit(s, "process_led_command", <<"A">>, "void")

\* the strcmp chain on cmd->valuestring
LedCommand(s, cmd) ==
    IF cmd = "led_a" THEN Emit(s, "process_led_command", <<"A">>, "void")
    ELSE IF cmd = "led_b" THEN Emit(s, "process_led_command", <<"B">>, "void")
    ELSE IF cmd = "led_c" THEN Emit(s, "process_led_command", <<"C">>, "void")
    ELSE s

\* a ping that is answered on the status topic, retained
PingBranch_StatusTopic(s, alloc, msg_id) ==
    LET r == CreateResponse(s, alloc,
                 [null |-> FALSE, type |-> "pong", status |-> "online",
                  ip |-> s.device_ip, uptime |-> s.uptime, active_led |-> 0])
    IN  IF r.ret.null THEN r.s
        ELSE IF alloc = "print" THEN Free(r.s, "json")
        ELSE Free(esp_mqtt_client_publish(r.s, MQTT_TOPIC_DEVICE_STATUS,
                                          r.ret, 0, 1, TRUE, msg_id), "json")

\* the body of `if (strcmp(type->valuestring, "ping") == 0)`: with a NULL
\* response the cJSON calls do nothing and cJSON_Print returns NULL
PingBranch(s, alloc, msg_id) ==
    LET r == CreateResponse(s, alloc,
                 [null |-> FALSE, type |-> "pong", status |-> "online",
                  ip |-> s.device_ip, uptime |-> s.uptime, active_led |-> 0])
    IN  IF r.ret.null THEN r.s
        ELSE IF alloc = "print" THEN Free(r.s, "json")
        ELSE Free(esp_mqtt_client_publish(r.s, MQTT_TOPIC_DEVICE_RESPONSE,
                                          r.ret, 0, 1, FALSE, msg_id), "json")

\* a command branch that acknowledges outside `if (cmd && cJSON_IsString(cmd))`
CommandBranch_AlwaysRespond(s, msg, alloc, msg_id) ==
    IF msg.payload = "<absent>" THEN s
    ELSE
      LET s1 == IF msg.payload \in CmdStrings THEN LedCommand(s, msg.payload) ELSE s
          r == CreateResponse(s1, alloc,
                   [null |-> FALSE, cmd_received |-> msg.payload, success |-> TRUE])
      IN  publish_json_message(r.s, MQTT_TOPIC_DEVICE_RESPONSE, "response",
                               r.ret, alloc, msg_id).s

\* the body of `if (strcmp(type->valuestring, MQTT_MSG_TYPE_COMMAND) == 0)`;
\* msg.payload is the string cmd of the payload when it has one
CommandBranch(s, msg, alloc, msg_id) ==
    IF msg.payload = "<absent>" THEN s
    ELSE IF msg.payload \in CmdStrings THEN
      LET s1 == LedCommand(s, msg.payload)
          r == CreateResponse(s1, alloc,
                   [null |-> FALSE, cmd_received |-> msg.payload, success |-> TRUE])
      IN  publish_json_message(r.s, MQTT_TOPIC_DEVICE_RESPONSE, "response",
                               r.ret, alloc, msg_id).s
    ELSE s

\* static void process_json_command(const char* json_str); the parsed root is
\* released on every path
process_json_command(s, msg, alloc, msg_id) ==
    IF ~msg.json THEN s
    ELSE IF msg.type \in {"<absent>", "<number>"} THEN s
    ELSE IF msg.type = "ping" THEN PingBranch(s, alloc, msg_id)
    ELSE IF msg.type = "command" THEN CommandBranch(s, msg, alloc, msg_id)
    ELSE s

----------------------------------------------------------------------------
\* Event handler and timer callback.

\* strncmp(a, b, n) == 0 where b is NUL-terminated and shorter than or as
\* long as n, and a holds the characters the comparison gets to read
Strncmp0(a, b, n) ==
    \A i \in 1..n : i <= Len(b) => (i <= Len(a) /\ a[i] = b[i])

\* a connected case that forgets to reset the retry counter
ev_connected_KeepCount(s, sub_id, alloc, msg_id) ==
    LET s1 == [s EXCEPT !.mqtt_connected = TRUE]
        s2 == esp_mqtt_client_subscribe(s1, MQTT_TOPIC_DEVICE_COMMANDS, 1, sub_id)
    IN  publish_json_status(s2, "online", alloc, msg_id).s

\* a connected case that announces "online" before it subscribes
ev_connected_PublishFirst(s, sub_id, alloc, msg_id) ==
    LET s1 == [s EXCEPT !.mqtt_retry_count = 0, !.mqtt_connected = TRUE]
        s2 == publish_json_status(s1, "online", alloc, msg_id).s
    IN  esp_mqtt_client_subscribe(s2, MQTT_TOPIC_DEVICE_COMMANDS, 1, sub_id)

\* case MQTT_EVENT_CONNECTED
ev_connected(s, sub_id, alloc, msg_id) ==
    LET s1 == [s EXCEPT !.mqtt_retry_count = 0, !.mqtt_connected = TRUE]
        s2 == esp_mqtt_client_subscribe(s1, MQTT_TOPIC_DEVICE_COMMANDS, 1, sub_id)
    IN  publish_json_status(s2, "online", alloc, msg_id).s

\* the body of `if (mqtt_retry_count < MQTT_MAX_RETRY_COUNT)`
ScheduleReconnect(s) ==
    LET delay == exponential_backoff(s.mqtt_retry_count)
        s1 == esp_timer_start_once(s, s.reconnect_timer, TimeoutUs(delay))
    IN  [s1 EXCEPT !.mqtt_retry_count = @ + 1]

\* a disconnected case that schedules a reconnection whatever the counter
ev_disconnected_Unbounded(s) ==
    ScheduleReconnect([s EXCEPT !.mqtt_connected = FALSE])

\* a disconnected case whose test is off by one: <= instead of <
ev_disconnected_OffByOne(s) ==
    LET s1 == [s EXCEPT !.mqtt_connected = FALSE]
    IN  IF s1.mqtt_retry_count <= MQTT_MAX_RETRY_COUNT
        THEN ScheduleReconnect(s1)
        ELSE s1

\* case MQTT_EVENT_DISCONNECTED
ev_disconnected(s) ==
    LET s1 == [s EXCEPT !.mqtt_connected = FALSE]
    IN  IF s1.mqtt_retry_count < MQTT_MAX_RETRY_COUNT
        THEN ScheduleReconnect(s1)
        ELSE s1

\* case MQTT_EVENT_DATA; copy_ok: malloc(event->data_len + 1) succeeded.
\* strncmp is given event->topic without event->topic_len: it compares up to
\* strlen(MQTT_TOPIC_DEVICE_COMMANDS) characters of the buffer, the topic and
\* what follows it.
ev_data(s, topic, after, msg, copy_ok, alloc, msg_id) ==
    IF ~copy_ok THEN s
    ELSE IF Strncmp0(topic \o after, MQTT_TOPIC_DEVICE_COMMANDS,
                     Len(MQTT_TOPIC_DEVICE_COMMANDS))
    THEN process_json_command(s, msg, alloc, msg_id)
    ELSE s

\* an error case that takes the error for a lost connection
ev_log_only_ErrorDisconnects(s, event_id) ==
    IF event_id = "MQTT_EVENT_ERROR" THEN [s EXCEPT !.mqtt_connected = FALSE] ELSE s

\* the cases that only log: before-connect, subscribed, unsubscribed,
\* published, error, default
ev_log_only(s, event_id) == s

\* a callback that only logs
mqtt_reconnect_timer_callback_LogOnly(s) == s

\* a callback that arms its own timer again: a periodic retry
mqtt_reconnect_timer_callback_Rearm(s) ==
    IF s.client # NULL
    THEN esp_timer_start_once(Emit(s, "esp_mqtt_client_start", <<s.client>>, "ignored"),
                              s.reconnect_timer, TimeoutUs(MQTT_RECONNECT_TIMEOUT_MS))
    ELSE s

\* static void mqtt_reconnect_timer_callback(void* arg)
mqtt_reconnect_timer_callback(s) ==
    IF s.client # NULL
    THEN Emit(s, "esp_mqtt_client_start", <<s.client>>, "ignored")
    ELSE s

----------------------------------------------------------------------------
\* Collaborators: client construction and teardown.

\* esp_mqtt_client_start(client): the client task runs and tries to connect
EspClientStart(s, ok) ==
    IF ok THEN Emit([s EXCEPT !.link = "started"],
                    "esp_mqtt_client_start", <<s.client>>, "ESP_OK")
    ELSE Emit(s, "esp_mqtt_client_start", <<s.client>>, "ESP_FAIL")

\* esp_mqtt_client_destroy(client); client = NULL;
ClientDestroy(s) ==
    [Free(Emit(s, "esp_mqtt_client_destroy", <<s.client>>, "ESP_OK"), "client")
        EXCEPT !.client = NULL, !.link = "none"]

\* esp_timer_delete(reconnect_timer); reconnect_timer = NULL;
TimerRelease(s) == [TimerDelete(s) EXCEPT !.reconnect_timer = NULL]

----------------------------------------------------------------------------
\* Public functions.

\* bool mqtt_app_is_connected(void)
mqtt_app_is_connected(s) == s.client # NULL /\ s.mqtt_connected

\* a cleanup after a failed esp_mqtt_client_start that keeps the timer
ConnectFailed_KeepTimer(s) == Free(ClientDestroy(s), "buf")

\* the failure branch of esp_mqtt_client_start in mqtt_app_start, with the
\* free(client_id) that follows it
ConnectFailed(s) == Free(ClientDestroy(TimerRelease(s)), "buf")

\* a start() that leaves the retry counter of the previous session
ResetRetry_Skip(s) == s

\* mqtt_retry_count = 0; before the initial esp_mqtt_client_start
ResetRetry(s) == [s EXCEPT !.mqtt_retry_count = 0]

\* mqtt_app_start past its guard; fail names the construction step that
\* fails.  client_id is the malloc'ed buffer of generate_client_id ("buf").
StartConstruct(s, fail) ==
    IF fail = "client_id" THEN s
    ELSE
      LET s1 == Alloc(s, "buf")
      IN  IF fail = "init"
          THEN Free(Emit(s1, "esp_mqtt_client_init", <<>>, NULL), "buf")
          ELSE
      LET s2 == Alloc(Emit([s1 EXCEPT !.client = CLIENT],
                           "esp_mqtt_client_init", <<>>, CLIENT), "client")
      IN  IF fail = "timer"
          THEN Free(ClientDestroy(Emit(s2, "esp_timer_create", <<>>, "ESP_ERR_NO_MEM")),
                    "buf")
          ELSE
      LET s3 == Alloc(Emit([s2 EXCEPT !.reconnect_timer = TIMER, !.timer_active = FALSE],
                           "esp_timer_create", <<>>, "ESP_OK"), "timer")
      IN  IF fail = "register"
          THEN Free(ClientDestroy(TimerRelease(
                      Emit(s3, "esp_mqtt_client_register_event", <<s3.client>>, "ESP_FAIL"))),
                    "buf")
          ELSE
      LET s4 == Emit(s3, "esp_mqtt_client_register_event", <<s3.client>>, "ESP_OK")
          s5 == ResetRetry(s4)
      IN  IF fail = "connect"
          THEN ConnectFailed(EspClientStart(s5, FALSE))
          ELSE Free(EspClientStart(s5, TRUE), "buf")

\* a start() that resets the retry counter before it rejects the call
mqtt_app_start_ResetOnReject(s, fail) ==
    IF s.client # NULL THEN [s EXCEPT !.mqtt_retry_count = 0]
    ELSE StartConstruct(s, fail)

\* void mqtt_app_start(void)
mqtt_app_start(s, fail) ==
    IF s.client # NULL THEN s
    ELSE StartConstruct(s, fail)

\* a publish that tests the handle only, not the connected flag
mqtt_app_publish_NoFlagCheck(s, topic, data, len, qos, retain, msg_id) ==
    IF s.client = NULL THEN R(s, "ESP_FAIL")
    ELSE LET s1 == esp_mqtt_client_publish(s, topic, data, len, qos, retain, msg_id)
         IN  R(s1, IF LastRet(s1) < 0 THEN "ESP_FAIL" ELSE "ESP_OK")

\* esp_err_t mqtt_app_publish(topic, data, len, qos, retain)
mqtt_app_publish(s, topic, data, len, qos, retain, msg_id) ==
    IF s.client = NULL \/ ~s.mqtt_connected THEN R(s, "ESP_FAIL")
    ELSE LET s1 == esp_mqtt_client_publish(s, topic, data, len, qos, retain, msg_id)
         IN  R(s1, IF LastRet(s1) < 0 THEN "ESP_FAIL" ELSE "ESP_OK")

\* esp_err_t mqtt_app_subscribe(topic, qos)
mqtt_app_subscribe(s, topic, qos, msg_id) ==
    IF s.client = NULL \/ ~s.mqtt_connected THEN R(s, "ESP_FAIL")
    ELSE LET s1 == esp_mqtt_client_subscribe(s, topic, qos, msg_id)
         IN  R(s1, IF LastRet(s1) < 0 THEN "ESP_FAIL" ELSE "ESP_OK")

\* esp_err_t mqtt_app_unsubscribe(topic)
mqtt_app_unsubscribe(s, topic, msg_id) ==
    IF s.client = NULL \/ ~s.mqtt_connected THEN R(s, "ESP_FAIL")
    ELSE LET s1 == esp_mqtt_client_unsubscribe(s, topic, msg_id)
         IN  R(s1, IF LastRet(s1) < 0 THEN "ESP_FAIL" ELSE "ESP_OK")

\* mqtt_app_stop past its guard.  mid: the client task delivers a
\* disconnected event to the handler while stop() is between the release of
\* the timer and the return of esp_mqtt_client_stop.
StopTeardown(s, mid, msg_id) ==
    LET s1 == IF s.reconnect_timer # NULL
              THEN [TimerStopAndDelete(s) EXCEPT !.reconnect_timer = NULL]
              ELSE s
        s2 == IF s1.mqtt_connected
              THEN Emit(esp_mqtt_client_publish(s1, MQTT_TOPIC_DEVICE_STATUS,
                            [status |-> "offline", ip |-> s1.device_ip],
                            "strlen", 1, TRUE, msg_id),
                        "esp_mqtt_client_disconnect", <<s1.client>>, "ESP_OK")
              ELSE s1
        s3 == IF mid THEN ev_disconnected(s2) ELSE s2
        s4 == Emit(s3, "esp_mqtt_client_stop", <<s3.client>>, "ESP_OK")
    IN  ClientDestroy(s4)

\* a stop() without its guard: the teardown runs on an empty handle too
mqtt_app_stop_NoGuard(s, mid, msg_id) == StopTeardown(s, mid, msg_id)

\* void mqtt_app_stop(void)
mqtt_app_stop(s, mid, msg_id) ==
    IF s.client = NULL THEN s
    ELSE StopTeardown(s, mid, msg_id)

\* void mqtt_app_set_ip(const char* ip); the addresses of Ips fit the buffer
mqtt_app_set_ip(s, ip) ==
    IF ip # NULL THEN [s EXCEPT !.device_ip = ip] ELSE s

\* esp_err_t mqtt_app_publish_status(const char* status)
mqtt_app_publish_status(s, status, alloc, msg_id) ==
    publish_json_status(s, status, alloc, msg_id)

\* esp_err_t mqtt_app_publish_telemetry(cJSON *payload); a non-NULL payload
\* is an object the caller allocated
mqtt_app_publish_telemetry(s, payload, alloc, msg_id) ==
    publish_json_message(IF payload.null THEN s ELSE Alloc(s, "json"),
                         MQTT_TOPIC_DEVICE_TELEMETRY, "telemetry", payload, alloc, msg_id)

----------------------------------------------------------------------------
\* The state machine.

NoLive == [client |-> 0, timer |-> 0, json |-> 0, buf |-> 0]

Idle == [op |-> "idle", args |-> <<>>, ret |-> "void"]

\* neither mqtt_app_stop() nor the timer callback is part-way through
NoRace == [stop |-> "idle", cb |-> "idle", arg |-> NULL, started_on |-> "none"]

RaceQuiet == race.stop = "idle" /\ race.cb = "idle"

\* the calls of cs that hand a status envelope of publish_json_status to the
\* transport
StatusPublishes(cs) ==
    {i \in 1..Len(cs) : /\ cs[i].fn = "esp_mqtt_client_publish"
                        /\ cs[i].args[2] = MQTT_TOPIC_DEVICE_STATUS
                        /\ "time_since_last_update" \in DOMAIN cs[i].args[3]}

\* the variables of the program take the values of s
Assign(s) ==
    /\ client' = s.client
    /\ reconnect_timer' = s.reconnect_timer
    /\ mqtt_retry_count' = s.mqtt_retry_count
    /\ mqtt_connected' = s.mqtt_connected
    /\ device_ip' = s.device_ip
    /\ last_update_time' = s.last_update_time
    /\ timer_active' = s.timer_active
    /\ timer_us' = s.timer_us
    /\ link' = s.link
    /\ uptime' = s.uptime
    /\ live' = s.live
    /\ consec_disconnected' = s.consec_disconnected
    /\ calls' = s.calls
    /\ prev_status' = IF StatusPublishes(s.calls) # {} THEN s.uptime ELSE prev_status

Init ==
    /\ client = NULL
    /\ reconnect_timer = NULL
    /\ mqtt_retry_count = 0
    /\ mqtt_connected = FALSE
    /\ device_ip = "0.0.0.0"
    /\ last_update_time = 0
    /\ timer_active = FALSE
    /\ timer_us = <<0, 0>>
    /\ link = "none"
    /\ uptime = 0
    /\ live = NoLive
    /\ consec_disconnected = 0
    /\ calls = <<>>
    /\ last = Idle
    /\ pre = [client |-> NULL, reconnect_timer |-> NULL, mqtt_retry_count |-> 0,
              mqtt_connected |-> FALSE, device_ip |-> "0.0.0.0",
              last_update_time |-> 0, timer_active |-> FALSE, timer_us |-> <<0, 0>>,
              link |-> "none", uptime |-> 0, live |-> NoLive,
              consec_disconnected |-> 0, prev_status |-> -1, calls |-> <<>>]
    /\ prev_status = -1
    /\ race = NoRace

\* operation op(args) took the state from Cur to s and returned ret
Commit(op, args, s, ret) ==
    /\ last.op = "idle"
    /\ RaceQuiet
    /\ Assign(s)
    /\ last' = [op |-> op, args |-> args, ret |-> ret]
    /\ pre' = Cur
    /\ UNCHANGED race

\* The record of the last operation (last, calls, pre, what it left
\* allocated) is dropped before the next one starts; the program's state is
\* untouched.
Forget ==
    /\ last.op # "idle"
    /\ last' = Idle
    /\ calls' = <<>>
    /\ live' = Cur.live
    /\ pre' = Cur
    /\ UNCHANGED <<client, reconnect_timer, mqtt_retry_count, mqtt_connected,
                   device_ip, last_update_time, timer_active, timer_us, link,
                   uptime, consec_disconnected, prev_status, race>>

ResetRun(s) == [s EXCEPT !.consec_disconnected = 0]

Start ==
    \E fail \in StartFailures :
        Commit("mqtt_app_start", <<fail>>, ResetRun(mqtt_app_start(Cur, fail)), "void")

Stop ==
    \E mid \in BOOLEAN, msg_id \in {-1, 1} :
        Commit("mqtt_app_stop", <<IF mid THEN "MQTT_EVENT_DISCONNECTED" ELSE "no event">>,
               ResetRun(mqtt_app_stop(Cur, mid, msg_id)), "void")

IsConnected ==
    Commit("mqtt_app_is_connected", <<>>, Cur, mqtt_app_is_connected(Cur))

Publish ==
    \E topic \in ApiTopics, data \in ApiData, qos \in QosLevels,
       retain \in BOOLEAN, msg_id \in MsgIds :
        LET r == mqtt_app_publish(Cur, topic, data, 0, qos, retain, msg_id)
        IN  Commit("mqtt_app_publish", <<topic, data, qos, retain>>, r.s, r.ret)

Subscribe ==
    \E topic \in ApiTopics, qos \in QosLevels, msg_id \in MsgIds :
        LET r == mqtt_app_subscribe(Cur, topic, qos, msg_id)
        IN  Commit("mqtt_app_subscribe", <<topic, qos>>, r.s, r.ret)

Unsubscribe ==
    \E topic \in ApiTopics, msg_id \in MsgIds :
        LET r == mqtt_app_unsubscribe(Cur, topic, msg_id)
        IN  Commit("mqtt_app_unsubscribe", <<topic>>, r.s, r.ret)

SetIp ==
    \E ip \in Ips \cup {NULL} :
        Commit("mqtt_app_set_ip", <<ip>>, mqtt_app_set_ip(Cur, ip), "void")

PublishStatus ==
    \E status \in StatusStrings, o \in JsonOutcomes :
        LET r == mqtt_app_publish_status(Cur, status, o[1], o[2])
        IN  Commit("mqtt_app_publish_status", <<status>>, r.s, r.ret)

PublishTelemetry ==
    \E payload \in {NullJson, [null |-> FALSE, temp |-> 21]}, o \in JsonOutcomes :
        LET r == mqtt_app_publish_telemetry(Cur, payload, o[1], o[2])
        IN  Commit("mqtt_app_publish_telemetry", <<payload>>, r.s, r.ret)

\* The client task delivers events while a client runs: connected when a
\* connection attempt succeeds, disconnected when the connection is lost or
\* an attempt fails, data while connected.
EvConnected ==
    /\ link = "started"
    /\ \E sub_id \in {-1, 1}, o \in JsonOutcomes :
        Commit("MQTT_EVENT_CONNECTED", <<o[1]>>,
               ResetRun(ev_connected([Cur EXCEPT !.link = "connected"],
                                     sub_id, o[1], o[2])),
               "void")

EvDisconnected ==
    /\ link \in {"started", "connected"}
    /\ Commit("MQTT_EVENT_DISCONNECTED", <<>>,
              [ev_disconnected([Cur EXCEPT !.link = "started"])
                  EXCEPT !.consec_disconnected =
                             IF @ <= MQTT_MAX_RETRY_COUNT THEN @ + 1 ELSE @],
              "void")

EvData ==
    /\ link = "connected"
    /\ \E i \in DataInputs :
        Commit("MQTT_EVENT_DATA", <<i[1], i[2], i[3], i[4][1], i[5]>>,
               ev_data(Cur, i[1], i[5], i[2], i[3], i[4][1], i[4][2]), "void")

EvLogOnly ==
    /\ link \in {"started", "connected"}
    /\ \E event_id \in LogOnlyEvents :
        Commit(event_id, <<>>, ev_log_only(Cur, event_id), "void")

\* the one-shot timer expires and runs its callback on the timer task
TimerFire ==
    /\ timer_active
    /\ Commit("mqtt_reconnect_timer_callback", <<>>,
              mqtt_reconnect_timer_callback([Cur EXCEPT !.timer_active = FALSE]),
              "void")

\* a second of uptime passes
Tick ==
    /\ uptime < MaxUptime
    /\ Commit("tick", <<>>, [Cur EXCEPT !.uptime = @ + 1], "void")

Next ==
    \/ Start
    \/ Stop
    \/ IsConnected
    \/ Publish
    \/ Subscribe
    \/ Unsubscribe
    \/ SetIp
    \/ PublishStatus
    \/ PublishTelemetry
    \/ EvConnected
    \/ EvDisconnected
    \/ EvData
    \/ EvLogOnly
    \/ TimerFire
    \/ Tick
    \/ Forget

Spec == Init /\ [][Next]_vars

----------------------------------------------------------------------------
\* Properties.

Min(a, b) == IF a < b THEN a ELSE b

\* base * 2^n capped: the delay the retry policy is to give, milliseconds
Backoff(n) == Min(MQTT_RECONNECT_TIMEOUT_MS * (2 ^ n), BACKOFF_CAP_MS)

\* the calls of the last operation to function fn
CallsTo(fn) == {i \in 1..Len(calls) : calls[i].fn = fn}

\* the program's statics and its collaborators are as the last operation found them
Unchanged ==
    /\ client = pre.client
    /\ reconnect_timer = pre.reconnect_timer
    /\ mqtt_retry_count = pre.mqtt_retry_count
    /\ mqtt_connected = pre.mqtt_connected
    /\ device_ip = pre.device_ip
    /\ last_update_time = pre.last_update_time
    /\ timer_active = pre.timer_active
    /\ timer_us = pre.timer_us
    /\ link = pre.link
    /\ live = pre.live

ApiOps == {"mqtt_app_publish", "mqtt_app_subscribe", "mqtt_app_unsubscribe"}

\* the transport function an API operation delegates to, with its arguments
Delegate(op, args, handle) ==
    IF op = "mqtt_app_publish"
    THEN [fn |-> "esp_mqtt_client_publish",
          args |-> <<handle, args[1], args[2], 0, args[3], args[4]>>]
    ELSE IF op = "mqtt_app_subscribe"
    THEN [fn |-> "esp_mqtt_client_subscribe", args |-> <<handle, args[1], args[2]>>]
    ELSE [fn |-> "esp_mqtt_client_unsubscribe", args |-> <<handle, args[1]>>]

\* C1: mqtt_app_publish, mqtt_app_subscribe and mqtt_app_unsubscribe fail
\* without any collaborator call when no client exists or the connected flag
\* is false; otherwise they make exactly one transport call, the matching
\* one on the client with the caller's arguments, and fail exactly when it
\* returns a negative message id.  The state is left as it was.
C1_ApiRejectedUnlessConnected ==
    last.op \in ApiOps =>
        /\ Unchanged
        /\ IF pre.client = NULL \/ ~pre.mqtt_connected
           THEN last.ret = "ESP_FAIL" /\ calls = <<>>
           ELSE /\ Len(calls) = 1
                /\ calls[1].fn = Delegate(last.op, last.args, pre.client).fn
                /\ calls[1].args = Delegate(last.op, last.args, pre.client).args
                /\ (last.ret = "ESP_FAIL") <=> (calls[1].ret < 0)
                /\ last.ret \in {"ESP_FAIL", "ESP_OK"}

\* a subscribe is rejected while a client exists and the flag is false
C1_Witness ==
    /\ last.op = "mqtt_app_subscribe"
    /\ pre.client # NULL
    /\ ~pre.mqtt_connected
    /\ last.ret = "ESP_FAIL"

PublishOps == {"mqtt_app_publish", "mqtt_app_publish_status",
               "mqtt_app_publish_telemetry", "MQTT_EVENT_DATA"}

\* C2: no publish operation of the module (mqtt_app_publish,
\* mqtt_app_publish_status, mqtt_app_publish_telemetry, the ping response
\* and the command response of a data event) hands a message to the
\* transport unless a client exists and the connected flag is set.
C2_PublishGated ==
    last.op \in PublishOps =>
        (CallsTo("esp_mqtt_client_publish") # {} =>
            pre.client # NULL /\ pre.mqtt_connected)

\* C3: mqtt_app_is_connected() returns true if and only if a client exists
\* and the session is connected, the session being disconnected from a
\* successful start() until its first connected event.
C3_IsConnectedIffSessionConnected ==
    last.op = "mqtt_app_is_connected" =>
        (last.ret <=> (client # NULL /\ link = "connected"))

\* C4: right after the handler processes a connected event the retry counter
\* is 0 and the connected flag is set, whatever the counter was.
C4_ConnectedResetsRetry ==
    last.op = "MQTT_EVENT_CONNECTED" =>
        mqtt_retry_count = 0 /\ mqtt_connected

\* a connected event arrives at a session that had used up its retries
C4_Witness ==
    /\ last.op = "MQTT_EVENT_CONNECTED"
    /\ pre.mqtt_retry_count = MQTT_MAX_RETRY_COUNT
    /\ mqtt_retry_count = 0

\* C5: once MQTT_MAX_RETRY_COUNT disconnected events have followed one
\* another with no connected event, stop() or start() between them, a
\* further disconnected event makes no timer call, leaves the timer as it
\* was and leaves the retry counter unchanged.
C5_RetriesCease ==
    (last.op = "MQTT_EVENT_DISCONNECTED"
        /\ pre.consec_disconnected >= MQTT_MAX_RETRY_COUNT) =>
        /\ CallsTo("esp_timer_start_once") = {}
        /\ calls = <<>>
        /\ mqtt_retry_count = pre.mqtt_retry_count
        /\ timer_active = pre.timer_active
        /\ timer_us = pre.timer_us

\* the sixth disconnected event in a row
C5_Witness ==
    /\ last.op = "MQTT_EVENT_DISCONNECTED"
    /\ pre.consec_disconnected = MQTT_MAX_RETRY_COUNT
    /\ pre.client # NULL

\* C6: the retry counter is an integer in 0..MQTT_MAX_RETRY_COUNT in every
\* reachable state.
C6_RetryCounterBounded ==
    mqtt_retry_count \in 0..MQTT_MAX_RETRY_COUNT

\* the counter reaches the bound on a disconnected event
C6_Witness ==
    /\ last.op = "MQTT_EVENT_DISCONNECTED"
    /\ pre.mqtt_retry_count = MQTT_MAX_RETRY_COUNT - 1
    /\ mqtt_retry_count = MQTT_MAX_RETRY_COUNT

\* the delay argument of the timer calls of the last operation
ArmedDelays == {calls[i].args[2] : i \in CallsTo("esp_timer_start_once")}

\* C7: for every attempt count n below MQTT_MAX_RETRY_COUNT,
\* exponential_backoff(n) is min(5000 * 2^n, 300000) milliseconds, does not
\* decrease with n and does not exceed the cap; the delay a disconnected
\* event computes from the retry counter is that value.
C7_BackoffFormula ==
    /\ \A n \in 0..(MQTT_MAX_RETRY_COUNT - 1) :
        /\ exponential_backoff(n) = Backoff(n)
        /\ exponential_backoff(n) <= BACKOFF_CAP_MS
        /\ n > 0 => exponential_backoff(n - 1) <= exponential_backoff(n)
    /\ (last.op = "MQTT_EVENT_DISCONNECTED"
            /\ pre.mqtt_retry_count < MQTT_MAX_RETRY_COUNT) =>
        ArmedDelays = {TimeoutUs(Backoff(pre.mqtt_retry_count))}

\* the handler computes the delay of the fourth attempt, 40 s
C7_Witness ==
    /\ last.op = "MQTT_EVENT_DISCONNECTED"
    /\ pre.mqtt_retry_count = 3
    /\ ArmedDelays = {Word(40000 * 1000)}

\* C8: for every attempt count n up to MQTT_MAX_RETRY_COUNT neither
\* 5000 * (1 << n) nor delay * 1000 leaves the 32-bit range: both equal the
\* exact products, and a timer armed by a disconnected event is armed for
\* exactly backoff(n) * 1000 microseconds.
C8_NoOverflow ==
    /\ \A n \in 0..MQTT_MAX_RETRY_COUNT :
        /\ FitsInt(BackoffProduct(n))
        /\ IntOf(BackoffProduct(n)) = MQTT_RECONNECT_TIMEOUT_MS * (2 ^ n)
        /\ FitsInt(TimeoutUs(exponential_backoff(n)))
        /\ IntOf(TimeoutUs(exponential_backoff(n))) = Backoff(n) * 1000
    /\ (last.op = "MQTT_EVENT_DISCONNECTED" /\ timer_active /\ ~pre.timer_active) =>
        /\ FitsInt(timer_us)
        /\ IntOf(timer_us) = Backoff(pre.mqtt_retry_count) * 1000

\* the last automatic attempt arms the timer for 80 s
C8_Witness ==
    /\ last.op = "MQTT_EVENT_DISCONNECTED"
    /\ pre.mqtt_retry_count = MQTT_MAX_RETRY_COUNT - 1
    /\ ~pre.timer_active
    /\ timer_active
    /\ IntOf(timer_us) = 80000000

\* C9: mqtt_app_start() called while a client exists makes no collaborator
\* call and leaves the client handle, the timer, the connection state and
\* the retry counter as they were.
C9_StartNoOpWhenStarted ==
    (last.op = "mqtt_app_start" /\ pre.client # NULL) =>
        calls = <<>> /\ Unchanged

\* start() is called on a session that has used up its retries
C9_Witness ==
    /\ last.op = "mqtt_app_start"
    /\ pre.client # NULL
    /\ pre.mqtt_retry_count = MQTT_MAX_RETRY_COUNT
    /\ mqtt_retry_count = MQTT_MAX_RETRY_COUNT

\* C10: when a construction step of mqtt_app_start() fails, the function
\* returns with no client, no timer, no running transport and nothing it
\* allocated still allocated (client, timer, client id buffer), so that the
\* guard of a later start() passes; of the statics only the retry counter
\* may differ from before the call, reset to 0 when the failing step is the
\* initial connect.
C10_FailedStartReleasesAll ==
    (last.op = "mqtt_app_start" /\ pre.client = NULL /\ last.args # <<"none">>) =>
        /\ client = NULL
        /\ reconnect_timer = NULL
        /\ ~timer_active
        /\ link = "none"
        /\ live = NoLive
        /\ mqtt_connected = pre.mqtt_connected
        /\ device_ip = pre.device_ip
        /\ last_update_time = pre.last_update_time
        /\ mqtt_retry_count = IF last.args = <<"connect">> THEN 0 ELSE pre.mqtt_retry_count

\* the initial connect fails after the client and the timer were created
C10_Witness ==
    /\ last.op = "mqtt_app_start"
    /\ last.args = <<"connect">>
    /\ pre.client = NULL
    /\ CallsTo("esp_timer_delete") # {}
    /\ CallsTo("esp_mqtt_client_destroy") # {}
    /\ client = NULL

----------------------------------------------------------------------------
\* Stopping.

TransportFns == {"esp_mqtt_client_init", "esp_mqtt_client_register_event",
                 "esp_mqtt_client_start", "esp_mqtt_client_publish",
                 "esp_mqtt_client_subscribe", "esp_mqtt_client_unsubscribe",
                 "esp_mqtt_client_disconnect", "esp_mqtt_client_stop",
                 "esp_mqtt_client_destroy"}

IsTransportCall(c) == c.fn \in TransportFns

\* the calls of the last operation to the transport, in order
TransportCalls == SelectSeq(calls, IsTransportCall)

\* the names of the functions called in a sequence of calls
FnNames(seq) == [i \in 1..Len(seq) |-> seq[i].fn]

\* the session is Connected: a client exists and the last lifecycle event of
\* its session was a connected event
SessionConnected(s) == s.client # NULL /\ s.link = "connected"

\* C11: mqtt_app_stop() called while the session is Connected calls the
\* transport in this order: a retained "offline" publish on the status
\* topic, disconnect, stop, destroy; called while a client exists and the
\* session is not Connected it calls stop and destroy only.  Either way the
\* client handle is empty afterwards.
C11_StopOrder ==
    (last.op = "mqtt_app_stop" /\ pre.client # NULL) =>
        /\ client = NULL
        /\ IF SessionConnected(pre)
           THEN /\ FnNames(TransportCalls) =
                       <<"esp_mqtt_client_publish", "esp_mqtt_client_disconnect",
                         "esp_mqtt_client_stop", "esp_mqtt_client_destroy">>
                /\ TransportCalls[1].args[2] = MQTT_TOPIC_DEVICE_STATUS
                /\ TransportCalls[1].args[3].status = "offline"
                /\ TransportCalls[1].args[6] = TRUE
                /\ \A i \in 1..4 : TransportCalls[i].args[1] = pre.client
           ELSE FnNames(TransportCalls) =
                    <<"esp_mqtt_client_stop", "esp_mqtt_client_destroy">>

\* C12: mqtt_app_stop() called when no client exists makes no call and
\* changes nothing; hence a second stop() right after a stop() adds no call
\* and leaves the state the first one produced, from every reachable state
\* and however the first one went.
C12_StopIdempotent ==
    /\ (last.op = "mqtt_app_stop" /\ pre.client = NULL) =>
           calls = <<>> /\ Unchanged
    /\ last.op = "idle" =>
           \A mid1 \in BOOLEAN, mid2 \in BOOLEAN, id1 \in {-1, 1}, id2 \in {-1, 1} :
               LET once == mqtt_app_stop(Cur, mid1, id1)
               IN  mqtt_app_stop(once, mid2, id2) = once

\* stop() is called again after a stop() that ended a connected session
C12_Witness ==
    /\ last.op = "mqtt_app_stop"
    /\ pre.client = NULL
    /\ pre.mqtt_connected
    /\ pre.live.client = 0

\* C13: mqtt_app_stop() called while the reconnection timer is pending stops
\* and deletes it, also when a disconnected event is handled during the
\* stop; while no client exists no timer is armed or held, and the timer
\* callback, the only source of reconnect attempts, runs only while a client
\* exists.
C13_StopCancelsTimer ==
    /\ (last.op = "mqtt_app_stop" /\ pre.client # NULL /\ pre.timer_active) =>
        /\ ~timer_active
        /\ reconnect_timer = NULL
        /\ live.timer = 0
        /\ \E i \in CallsTo("esp_timer_stop"), j \in CallsTo("esp_timer_delete") :
               i < j
        /\ CallsTo("esp_mqtt_client_start") = {}
        /\ \A i \in CallsTo("esp_timer_start_once") : calls[i].ret # "ESP_OK"
    /\ client = NULL => (~timer_active /\ reconnect_timer = NULL /\ live.timer = 0)
    /\ last.op = "mqtt_reconnect_timer_callback" => pre.client # NULL

\* stop() cancels a pending timer and a disconnected event arrives during the
\* stop, which tries to arm the timer again
C13_Witness ==
    /\ last.op = "mqtt_app_stop"
    /\ last.args = <<"MQTT_EVENT_DISCONNECTED">>
    /\ pre.timer_active
    /\ CallsTo("esp_timer_start_once") # {}
    /\ ~timer_active
    /\ client = NULL

----------------------------------------------------------------------------
\* Reconnection.

\* a disconnected event that finds the retry counter below the bound
DisconnectedBelowMax ==
    /\ last.op = "MQTT_EVENT_DISCONNECTED"
    /\ pre.mqtt_retry_count < MQTT_MAX_RETRY_COUNT

\* the delays of the hence-clause, seconds
BackoffSeconds == <<5, 10, 20, 40, 80>>

\* C14: a disconnected event that finds the retry counter c below
\* MQTT_MAX_RETRY_COUNT clears the connected flag, leaves the one-shot timer
\* armed for backoff(c), c being the counter before the increment, and makes
\* the counter c + 1; so the k-th of a run of disconnected events after a
\* connected event leaves the timer armed for 5, 10, 20, 40, 80 seconds.
C14_DisconnectArmsBackoff ==
    DisconnectedBelowMax =>
        /\ ~mqtt_connected
        /\ link # "connected"
        /\ timer_active
        /\ timer_us = TimeoutUs(Backoff(pre.mqtt_retry_count))
        /\ mqtt_retry_count = pre.mqtt_retry_count + 1
        /\ pre.mqtt_retry_count = pre.consec_disconnected =>
               IntOf(timer_us) = BackoffSeconds[pre.consec_disconnected + 1] * 1000000

\* The lifecycle alone: start, stop, the lifecycle events and the timer.
LiveNext ==
    \/ Start
    \/ Stop
    \/ EvConnected
    \/ EvDisconnected
    \/ TimerFire
    \/ Forget

\* The esp_timer task runs the callback of an armed timer once its timeout
\* expires, whatever the other tasks do in between: strong fairness, as the
\* callback is taken between two operations.
LiveSpec ==
    /\ Init
    /\ [][LiveNext]_vars
    /\ SF_vars(TimerFire)
    /\ WF_vars(Forget)

\* the timer callback issued a connect attempt on the client that exists
ReconnectIssued ==
    /\ last.op = "mqtt_reconnect_timer_callback"
    /\ pre.client # NULL
    /\ client = pre.client
    /\ \E i \in CallsTo("esp_mqtt_client_start") : calls[i].args = <<pre.client>>

\* C15: with the timer service fair, every disconnected event that finds the
\* retry counter below MQTT_MAX_RETRY_COUNT is eventually followed by a
\* connect attempt of the timer callback on the existing client, unless a
\* stop() removes the client first; and a connected event leaves the session
\* connected with the retry counter 0.
C15_Recovery ==
    /\ [](DisconnectedBelowMax => <>(ReconnectIssued \/ client = NULL))
    /\ [](last.op = "MQTT_EVENT_CONNECTED" =>
            (mqtt_connected /\ link = "connected" /\ mqtt_retry_count = 0
             /\ client = pre.client))

\* the callback issues the connect attempt that follows a disconnected event
C15_Witness ==
    /\ ReconnectIssued
    /\ pre.consec_disconnected > 0
    /\ pre.mqtt_retry_count > 0
    /\ pre.link = "started"

\* the timer expires and its callback runs
FireTimer(s) == mqtt_reconnect_timer_callback([s EXCEPT !.timer_active = FALSE])

\* the state after n disconnected events, the timer expiring after each
RECURSIVE AfterRetries(_, _)
AfterRetries(s, n) ==
    IF n = 0 THEN s ELSE FireTimer(ev_disconnected(AfterRetries(s, n - 1)))

\* a successful start() after a stop() of a session that had used up its retries
RestartedFromBound ==
    /\ last.op = "mqtt_app_start"
    /\ last.args = <<"none">>
    /\ pre.client = NULL
    /\ pre.mqtt_retry_count = MQTT_MAX_RETRY_COUNT

\* C16: a successful start() after the retry bound was reached and the
\* session stopped leaves a client, the retry counter 0 and a newly created
\* timer that is not armed; from there the n-th disconnected event, n below
\* MQTT_MAX_RETRY_COUNT, arms the timer for backoff(n), 5 s first, and the
\* one after MQTT_MAX_RETRY_COUNT of them arms nothing.
C16_RestartReenables ==
    RestartedFromBound =>
        /\ client # NULL
        /\ mqtt_retry_count = 0
        /\ reconnect_timer # NULL
        /\ ~timer_active
        /\ live.timer = 1
        /\ CallsTo("esp_timer_create") # {}
        /\ \A n \in 0..(MQTT_MAX_RETRY_COUNT - 1) :
               LET s == ev_disconnected(AfterRetries(Cur, n))
               IN  /\ s.timer_active
                   /\ s.timer_us = TimeoutUs(Backoff(n))
                   /\ s.mqtt_retry_count = n + 1
                   /\ LastRet(s) = "ESP_OK"
        /\ ev_disconnected(Cur).timer_us = Word(MQTT_RECONNECT_TIMEOUT_MS * 1000)
        /\ LET s == AfterRetries(Cur, MQTT_MAX_RETRY_COUNT)
           IN  ev_disconnected(s) = [s EXCEPT !.mqtt_connected = FALSE]

\* the restart of a session that had used up its retries
C16_Witness ==
    /\ RestartedFromBound
    /\ mqtt_retry_count = 0
    /\ reconnect_timer # NULL

----------------------------------------------------------------------------
\* Event reactions and command dispatch.

\* C17: the handler of a connected event, the first of a session or a later
\* one, first subscribes to the commands topic at QoS 1 on the client and
\* then, the envelope being allocated, publishes one retained status envelope
\* with status "online" on the status topic at QoS 1; it makes no other call,
\* and none after the subscribe when the envelope cannot be allocated.
C17_ConnectedSubscribesThenOnline ==
    last.op = "MQTT_EVENT_CONNECTED" =>
        /\ Len(calls) >= 1
        /\ calls[1].fn = "esp_mqtt_client_subscribe"
        /\ calls[1].args = <<pre.client, MQTT_TOPIC_DEVICE_COMMANDS, 1>>
        /\ IF last.args = <<"none">>
           THEN /\ Len(calls) = 2
                /\ calls[2].fn = "esp_mqtt_client_publish"
                /\ calls[2].args[1] = pre.client
                /\ calls[2].args[2] = MQTT_TOPIC_DEVICE_STATUS
                /\ calls[2].args[3].type = "status"
                /\ calls[2].args[3].status = "online"
                /\ calls[2].args[5] = 1
                /\ calls[2].args[6] = TRUE
           ELSE Len(calls) = 1

\* a reconnection: the connected event follows disconnections of the session
C17_Witness ==
    /\ last.op = "MQTT_EVENT_CONNECTED"
    /\ last.args = <<"none">>
    /\ pre.mqtt_retry_count > 0
    /\ Len(calls) = 2
    /\ calls[2].args[3].status = "online"

EventOps == LogOnlyEvents \cup {"MQTT_EVENT_CONNECTED", "MQTT_EVENT_DISCONNECTED",
                                "MQTT_EVENT_DATA"}

\* C18: the before-connect, subscribed, unsubscribed, published and error
\* events (and any event the handler does not know) make no call and leave
\* the connected flag, the retry counter, the client handle, the timer and
\* everything else as they were; of all events only connected and
\* disconnected change the connection state.
C18_LogOnlyEvents ==
    /\ last.op \in LogOnlyEvents => (calls = <<>> /\ Unchanged)
    /\ (last.op \in EventOps
            /\ last.op \notin {"MQTT_EVENT_CONNECTED", "MQTT_EVENT_DISCONNECTED"}) =>
           (mqtt_connected = pre.mqtt_connected /\ link = pre.link)

\* an error event arrives at a connected session
C18_Witness ==
    /\ last.op = "MQTT_EVENT_ERROR"
    /\ pre.mqtt_connected
    /\ pre.link = "connected"
    /\ mqtt_connected
    /\ pre.mqtt_retry_count = mqtt_retry_count

\* a data event on the commands topic whose payload was copied and whose
\* response is allocated, at a connected session
CommandArrived ==
    /\ last.op = "MQTT_EVENT_DATA"
    /\ last.args[1] = MQTT_TOPIC_DEVICE_COMMANDS
    /\ last.args[3]
    /\ last.args[4] = "none"
    /\ last.args[2].json
    /\ SessionConnected(pre)

\* C19: a message of type "ping", with or without payload, on the commands
\* topic of a connected session makes the handler publish exactly one
\* message: on the response topic, QoS 1, not retained, a pong envelope with
\* status "online", the device IP of that moment and an uptime that is not
\* negative; process_led_command is not called.
C19_PingAnswered ==
    (CommandArrived /\ last.args[2].type = "ping") =>
        /\ Len(calls) = 1
        /\ calls[1].fn = "esp_mqtt_client_publish"
        /\ calls[1].args[1] = pre.client
        /\ calls[1].args[2] = MQTT_TOPIC_DEVICE_RESPONSE
        /\ calls[1].args[3].type = "pong"
        /\ calls[1].args[3].status = "online"
        /\ calls[1].args[3].ip = pre.device_ip
        /\ calls[1].args[3].uptime = pre.uptime
        /\ calls[1].args[3].uptime >= 0
        /\ calls[1].args[5] = 1
        /\ calls[1].args[6] = FALSE
        /\ CallsTo("process_led_command") = {}

\* a ping that carries a payload is answered with the address set by set_ip
C19_Witness ==
    /\ CommandArrived
    /\ last.args[2] = Msg(TRUE, "ping", "led_a")
    /\ pre.device_ip = "10.0.0.2"
    /\ Len(calls) = 1
    /\ calls[1].args[3].ip = "10.0.0.2"

\* the character code of a recognized command identifier
LedCode(cmd) == CASE cmd = "led_a" -> "A" [] cmd = "led_b" -> "B" [] cmd = "led_c" -> "C"

\* C20: a command envelope on the commands topic of a connected session
\* whose payload.cmd is led_a, led_b or led_c makes the handler call
\* process_led_command exactly once, with 'A', 'B' or 'C', and then publish
\* exactly one message: on the response topic, QoS 1, not retained, an
\* envelope of type "response" whose payload has cmd_received = cmd and
\* success = true.
C20_CommandActedThenAnswered ==
    (CommandArrived /\ last.args[2].type = "command"
        /\ last.args[2].payload \in {"led_a", "led_b", "led_c"}) =>
        /\ Len(calls) = 2
        /\ calls[1] = Call("process_led_command", <<LedCode(last.args[2].payload)>>, "void")
        /\ calls[2].fn = "esp_mqtt_client_publish"
        /\ calls[2].args[1] = pre.client
        /\ calls[2].args[2] = MQTT_TOPIC_DEVICE_RESPONSE
        /\ calls[2].args[3].type = "response"
        /\ calls[2].args[3].payload.cmd_received = last.args[2].payload
        /\ calls[2].args[3].payload.success = TRUE
        /\ calls[2].args[5] = 1
        /\ calls[2].args[6] = FALSE

\* led_b is executed as 'B' and then acknowledged
C20_Witness ==
    /\ CommandArrived
    /\ last.args[2] = CmdMsg("led_b")
    /\ Len(calls) = 2
    /\ calls[1].args = <<"B">>
    /\ calls[2].args[3].payload.cmd_received = "led_b"

\* the command identifiers the handler maps to an action
RecognizedCmds == {"led_a", "led_b", "led_c"}

\* C21: a command envelope on the commands topic of a connected session
\* whose payload.cmd is a string other than led_a, led_b, led_c makes the
\* handler publish exactly one message, a response envelope on the response
\* topic with cmd_received = cmd and success = true, and call
\* process_led_command not at all.
C21_UnknownCommandAcknowledged ==
    (CommandArrived /\ last.args[2].type = "command"
        /\ last.args[2].payload \in CmdStrings \ RecognizedCmds) =>
        /\ CallsTo("process_led_command") = {}
        /\ Len(calls) = 1
        /\ calls[1].fn = "esp_mqtt_client_publish"
        /\ calls[1].args[2] = MQTT_TOPIC_DEVICE_RESPONSE
        /\ calls[1].args[3].type = "response"
        /\ calls[1].args[3].payload.cmd_received = last.args[2].payload
        /\ calls[1].args[3].payload.success = TRUE

\* LED_A, which differs from led_a in case only, is acknowledged and not executed
C21_Witness ==
    /\ CommandArrived
    /\ last.args[2] = CmdMsg("LED_A")
    /\ Len(calls) = 1
    /\ calls[1].args[3].payload.cmd_received = "LED_A"

\* the message is malformed JSON, has no string type, has a type other than
\* ping and command, or is a command without a payload or without a string
\* cmd in it
CannotBeActedOn(msg) ==
    \/ ~msg.json
    \/ msg.type \in {"<absent>", "<number>"}
    \/ msg.type \notin {"ping", "command"}
    \/ (msg.type = "command" /\ msg.payload \in {"<absent>", "<nocmd>", "<cmd:number>"})

\* C22: a message on the commands topic that cannot be acted on makes the
\* handler call nothing, neither the transport nor process_led_command, and
\* leaves the connected flag and every other part of the state as it was.
C22_DroppedMessages ==
    (last.op = "MQTT_EVENT_DATA" /\ last.args[1] = MQTT_TOPIC_DEVICE_COMMANDS
        /\ CannotBeActedOn(last.args[2])) =>
        calls = <<>> /\ Unchanged

\* a command whose payload has no cmd field is dropped
C22_Witness ==
    /\ last.op = "MQTT_EVENT_DATA"
    /\ last.args[1] = MQTT_TOPIC_DEVICE_COMMANDS
    /\ last.args[2] = CmdMsg("<nocmd>")
    /\ last.args[3]
    /\ pre.mqtt_connected
    /\ calls = <<>>

\* C23: a data event reaches the command dispatcher if and only if its
\* topic is /device/commands: on any other topic, one that begins with that
\* string included, the handler calls neither process_led_command nor the
\* transport; on the commands topic a message that can be acted on, copied
\* and answered, leads to a call.
C23_OnlyCommandsTopicDispatched ==
    last.op = "MQTT_EVENT_DATA" =>
        /\ last.args[1] # MQTT_TOPIC_DEVICE_COMMANDS => calls = <<>>
        /\ (CommandArrived /\ ~CannotBeActedOn(last.args[2])) => calls # <<>>

\* the calls of the last operation that armed the timer
ArmedCalls == {i \in CallsTo("esp_timer_start_once") : calls[i].ret = "ESP_OK"}

\* C24: esp_mqtt_client_start is called by mqtt_app_start() and by the timer
\* callback only, once per run and on the client that exists at that moment;
\* the callback runs for a timer that was armed, leaves it unarmed and does
\* not arm it; the timer is armed by disconnected events only, once per
\* event and only when it is not pending, and there is one timer at most: so
\* each connect attempt of the callback answers one disconnected event and
\* no second one is pending meanwhile.
C24_ConnectAttempts ==
    /\ CallsTo("esp_mqtt_client_start") # {} =>
        /\ last.op \in {"mqtt_app_start", "mqtt_reconnect_timer_callback"}
        /\ Cardinality(CallsTo("esp_mqtt_client_start")) = 1
        /\ \A i \in CallsTo("esp_mqtt_client_start") : calls[i].args = <<CLIENT>>
        /\ last.op = "mqtt_app_start" =>
               (pre.client = NULL /\ CallsTo("esp_mqtt_client_init") # {})
        /\ last.op = "mqtt_reconnect_timer_callback" =>
               (pre.client = CLIENT /\ client = CLIENT /\ live.client = 1)
    /\ last.op = "mqtt_reconnect_timer_callback" =>
        /\ pre.timer_active
        /\ ~timer_active
        /\ CallsTo("esp_timer_start_once") = {}
    /\ ArmedCalls # {} =>
        /\ last.op = "MQTT_EVENT_DISCONNECTED"
        /\ Cardinality(ArmedCalls) = 1
        /\ ~pre.timer_active
    /\ (timer_active /\ ~pre.timer_active) => ArmedCalls # {}
    /\ live.timer <= 1
    /\ timer_active => (reconnect_timer = TIMER /\ client = CLIENT)

\* the callback issues the one attempt of the last disconnected event of a run
C24_Witness ==
    /\ last.op = "mqtt_reconnect_timer_callback"
    /\ pre.timer_active
    /\ pre.mqtt_retry_count = MQTT_MAX_RETRY_COUNT
    /\ Cardinality(CallsTo("esp_mqtt_client_start")) = 1
    /\ ~timer_active

\* C25: when publish_json_message returns, to mqtt_app_publish_telemetry or
\* to the command branch of a data event, with success or with failure, the
\* rejection while not connected included, the payload object and the
\* envelope are released: no JSON object of the call remains allocated.
C25_PayloadReleased ==
    last.op \in {"mqtt_app_publish_telemetry", "MQTT_EVENT_DATA"} =>
        live.json = 0

\* C27: the retry counter counts the timers armed since the last connected
\* event or start(): those two leave it 0, and every other operation raises
\* it by the number of times it armed the timer, a disconnected event by one
\* only if esp_timer_start_once armed the timer, also when the timer was
\* pending or when stop() had released it.
C27_CounterCountsArmedTimers ==
    /\ last.op = "MQTT_EVENT_CONNECTED" => mqtt_retry_count = 0
    /\ (last.op = "mqtt_app_start" /\ pre.client = NULL /\ client # NULL) =>
           mqtt_retry_count = 0
    /\ last.op \notin {"MQTT_EVENT_CONNECTED", "mqtt_app_start"} =>
           mqtt_retry_count - pre.mqtt_retry_count = Cardinality(ArmedCalls)


----------------------------------------------------------------------------
\* mqtt_app_stop() on the caller's thread against
\* mqtt_reconnect_timer_callback on the esp_timer task, one statement at a
\* time.  Both read and write the static client with no lock; esp_timer_stop
\* and esp_timer_delete do not wait for a callback that is already running.

\* a statement of either thread took the state from Cur to s
RaceStep(s, r) ==
    /\ last.op = "idle"
    /\ Assign(s)
    /\ race' = r
    /\ UNCHANGED <<last, pre>>

\* if (client == NULL) { ...; return; }
StopGuard ==
    /\ race.stop = "idle"
    /\ RaceStep(Cur, [race EXCEPT !.stop = IF client = NULL THEN "idle" ELSE "timer"])

\* if (reconnect_timer != NULL) { stop if active; delete; reconnect_timer = NULL; }
StopTimer ==
    /\ race.stop = "timer"
    /\ RaceStep(IF reconnect_timer # NULL
                THEN [TimerStopAndDelete(Cur) EXCEPT !.reconnect_timer = NULL]
                ELSE Cur,
                [race EXCEPT !.stop = "offline"])

\* if (mqtt_connected) { publish the offline status; esp_mqtt_client_disconnect; }
StopOffline ==
    /\ race.stop = "offline"
    /\ \E msg_id \in {-1, 1} :
        RaceStep(IF mqtt_connected
                 THEN Emit(esp_mqtt_client_publish(Cur, MQTT_TOPIC_DEVICE_STATUS,
                               [status |-> "offline", ip |-> device_ip],
                               "strlen", 1, TRUE, msg_id),
                           "esp_mqtt_client_disconnect", <<client>>, "ESP_OK")
                 ELSE Cur,
                 [race EXCEPT !.stop = "client_stop"])

\* esp_mqtt_client_stop(client);
StopClientStop ==
    /\ race.stop = "client_stop"
    /\ RaceStep(Emit(Cur, "esp_mqtt_client_stop", <<client>>, "ESP_OK"),
                [race EXCEPT !.stop = "destroy"])

\* esp_mqtt_client_destroy(client); the static still holds the handle
StopDestroy ==
    /\ race.stop = "destroy"
    /\ RaceStep([ClientDestroy(Cur) EXCEPT !.client = client],
                [race EXCEPT !.stop = "clear"])

\* client = NULL; and the return
StopClear ==
    /\ race.stop = "clear"
    /\ RaceStep(ResetRun([Cur EXCEPT !.client = NULL]),
                [race EXCEPT !.stop = "idle"])

\* the one-shot timer expires: the timer task enters the callback
CbFire ==
    /\ timer_active
    /\ race.cb = "idle"
    /\ RaceStep([Cur EXCEPT !.timer_active = FALSE],
                [race EXCEPT !.cb = "test", !.arg = NULL, !.started_on = "none"])

\* if (client) {
CbTest ==
    /\ race.cb = "test"
    /\ RaceStep(Cur, IF client # NULL
                     THEN [race EXCEPT !.cb = "call", !.arg = client]
                     ELSE [race EXCEPT !.cb = "idle"])

\* ESP_LOGI(...); esp_mqtt_client_start(client); }  The argument is the
\* value the test read or a fresh read of the static: the accesses race with
\* stop()'s write, and the build decides whether the static is read again.
CbCall ==
    /\ race.cb = "call"
    /\ \E h \in {race.arg, client} :
        RaceStep(Emit(Cur, "esp_mqtt_client_start", <<h>>,
                      IF h = NULL THEN "ESP_ERR_INVALID_ARG"
                      ELSE IF live.client = 0 THEN "undefined" ELSE "ignored"),
                 [race EXCEPT !.cb = "idle", !.arg = NULL,
                              !.started_on = IF h = NULL THEN "null"
                                             ELSE IF live.client = 0 THEN "destroyed"
                                             ELSE "live"])

RaceNext ==
    \/ Start
    \/ EvConnected
    \/ EvDisconnected
    \/ Forget
    \/ StopGuard
    \/ StopTimer
    \/ StopOffline
    \/ StopClientStop
    \/ StopDestroy
    \/ StopClear
    \/ CbFire
    \/ CbTest
    \/ CbCall

RaceSpec == Init /\ [][RaceNext]_vars

\* C26: under every interleaving of mqtt_app_stop() with the reconnection
\* timer callback, the callback never issues esp_mqtt_client_start on a
\* client handle that stop() has already destroyed.
C26_NoStartOnDestroyedClient ==
    race.started_on # "destroyed"

\* C28: every status envelope carries time_since_last_update = 0 when it is
\* the first status publish, and otherwise the whole seconds between the
\* previous status publish and this one, whatever the uptime second of the
\* previous publish was (second 0 included).
C28_TimeSinceLastUpdate ==
    \A i \in StatusPublishes(calls) :
        calls[i].args[3].time_since_last_update =
            IF pre.prev_status = -1 THEN 0 ELSE pre.uptime - pre.prev_status

============================================================================
